---- MODULE Spec2Model ----
(***************************************************************************)
(* Ranking evaluation, negative sampling and minibatching of the kga       *)
(* package (src/kga/metrics.py, src/kga/util.py).                          *)
(*                                                                         *)
(* Conventions.  A triplet is a tuple <<s, r, o>>; numpy column c is tuple *)
(* position c+1.  A batch (M x 3 array) is a sequence of triplets.  Ranks  *)
(* of scipy.stats.rankdata can be half-integers, so every rank is kept     *)
(* doubled (ranks_h[i] = 2 * rank).  Means of reciprocals are kept as      *)
(* exact fractions [num, den].                                             *)
(***************************************************************************)
EXTENDS Integers, Sequences, FiniteSets, TLC

VARIABLES
    fn,         \* the function being run
    pc,         \* position in it
    \* ---- eval_embeddings (src/kga/metrics.py:45-132)
    model,      \* the scoring model behind model.predict
    X_test,     \* M test triplets
    n_e,        \* number of entities
    n_sample,   \* None or Some(number of sampled candidates)
    k,          \* Hits@k cutoff
    ents,       \* candidate entities, in loop order
    i,          \* loop index of "for i, e in enumerate(ents)"; range index of get_minibatches
    X_corr_h,   \* test triplets with the subject replaced
    X_corr_t,   \* test triplets with the object replaced
    scores_h,   \* M x N score matrix, subject direction
    scores_t,   \* M x N score matrix, object direction
    ranks_h,    \* doubled rank of column 0 in each row of scores_h
    ranks_t,    \* doubled rank of column 0 in each row of scores_t
    mrr,        \* returned MRR, a fraction
    hitsk,      \* returned Hits@k, a fraction
    X_lit,      \* None or the literal row of every entity
    X_lit_s_ori, \* literal rows of the test subjects
    X_lit_o_ori, \* literal rows of the test objects
    call_h,     \* arguments of the latest model.predict call, subject direction
    call_t,     \* arguments of the latest model.predict call, object direction
    writes,     \* how many times each score column has been assigned
    \* ---- eval_embeddings_rel (src/kga/metrics.py:135-199)
    X_corr_r,   \* test triplets with the relation replaced
    scores_r,   \* M x n_r score matrix
    ranks_r,    \* doubled rank of the true relation's column in each row
    \* ---- training scripts (src/run_baselines.py, src/experiments/...)
    script,     \* which script is run
    args,       \* the parsed command line
    M_train,    \* number of rows of X_train
    files,      \* the filter files that exist on disk
    load_path,  \* None or Some(path the parameters were loaded from)
    checkpoint_path, \* path of the end-of-epoch checkpoint
    epoch,      \* for epoch in range(n_epoch)
    it,         \* iteration counter within the epoch
    mb_iter,    \* the get_minibatches generator: shuffled rows and position
    X_mb,       \* the current minibatch of positives
    m_mb,       \* m = X_mb.shape[0]
    X_train_mb, \* the stacked training batch
    y_true_mb,  \* its labels
    steps,      \* solver.step() calls so far, one entry <<epoch, it>> each
    normalized, \* model.normalize_embeddings() calls so far
    logged,     \* iterations <<epoch, it>> whose logging step ran
    saved,      \* torch.save calls so far: <<epoch, path>>
    filter_s_test, \* test mode: loaded filter or None
    filter_o_test, \* test mode: loaded filter or None
    report,     \* test mode: whether the metric line has been printed
    lr,         \* param_group['lr'] of the solver, as a fraction of args.lr
    ops,        \* operations of the training loop so far, in program order
    pairs,      \* (y_pos, y_neg) terms of the last ranking_loss call
    acc_rows,   \* rows the per-class accuracies of this iteration were computed on
    \* ---- arrays: objects on the heap, named by reference
    heap,       \* object id -> rows of the array (or list) object
    X,          \* reference to the caller's batch / dataset
    X_in,       \* rows of X when the function was called
    \* ---- negative samplers (src/kga/util.py:10-142)
    n_r,        \* number of relations
    n_s,        \* number of subjects (decoupled)
    n_o,        \* number of objects (decoupled)
    X_corr,     \* reference to the corrupted batch under construction
    row,        \* number of rows of X the for loop has finished
    hc,         \* drawn replacement subject
    tc,         \* drawn replacement object
    rc,         \* drawn replacement relation
    result,     \* reference to the returned array
    \* ---- get_minibatches (src/kga/util.py:254-286)
    mb_size,    \* rows per minibatch
    shuffle,    \* whether to shuffle first
    X_shuff,    \* reference to the array being sliced
    batches     \* the minibatches yielded so far, in order

evalVars == <<model, X_test, n_sample, k, ents, X_corr_h, X_corr_t,
              scores_h, scores_t, ranks_h, ranks_t, mrr, hitsk,
              X_lit, X_lit_s_ori, X_lit_o_ori, call_h, call_t, writes>>
arrVars == <<heap, X, X_in>>
negVars == <<n_r, n_s, n_o, X_corr, row, hc, tc, rc, result>>
mbVars == <<mb_size, shuffle, X_shuff, batches>>
relVars == <<X_corr_r, scores_r, ranks_r>>
trainVars == <<script, args, M_train, files, load_path, checkpoint_path, epoch, it,
               mb_iter, X_mb, m_mb, X_train_mb, y_true_mb, steps, normalized, logged,
               saved, filter_s_test, filter_o_test, report, lr, ops, pairs, acc_rows>>

vars == <<fn, pc, n_e, i, evalVars, arrVars, negVars, mbVars, relVars, trainVars>>

\* ------------------------------------------------------------------ bounds
MaxEnt == 4      \* entity vocabularies of 1..MaxEnt entities
MaxRows == 2     \* test sets of 1..MaxRows rows
MaxWork == 4     \* inputs with rows * vocabulary size <= MaxWork
MaxTableEnt == 3 \* a table model has at most MaxTableEnt entities
MaxScore == 2    \* a table model scores in 0..MaxScore
NRel == 1        \* relations 0..NRel-1
MaxK == 2        \* Hits@k cutoffs 1..MaxK
MaxVocab == 4    \* samplers: the corrupted slot's vocabulary has 1..MaxVocab indices
OtherVocab == 2  \* samplers: the other slots' vocabularies have OtherVocab indices
MaxBatch == 2    \* samplers: batches of 0..MaxBatch rows
MaxLen == 4      \* get_minibatches: datasets of 0..MaxLen rows
MaxMb == 3       \* get_minibatches: mb_size in 1..MaxMb
MbVals == 2      \* get_minibatches: rows drawn from MbVals distinct triplets
MaxLit == 2      \* literal rows <<v>> with v in 0..MaxLit-1
MaxLitEnt == 3   \* literal evaluation: 1..MaxLitEnt entities
MaxRel == 6      \* eval_embeddings_rel: 1..MaxRel relations
MaxRelWork == 6  \* eval_embeddings_rel: rows * relations <= MaxRelWork
MaxC == 2        \* training: negative_samples in 1..MaxC
MaxEpoch == 2    \* training: nepoch in 0..MaxEpoch
MaxMbSize == 2   \* training: mbsize in 1..MaxMbSize
MaxTrain == 3    \* training: X_train has 0..MaxTrain rows
MaxTrainWork == 4 \* training: nepoch * rows of X_train <= MaxTrainWork
MaxDecay == 2     \* learning-rate schedule: lr_decay_every in 1..MaxDecay
MaxSchedEpoch == 4 \* learning-rate schedule: 0..MaxSchedEpoch epochs
MaxSchedTrain == 2 \* learning-rate schedule: 0..MaxSchedTrain training rows

\* ------------------------------------------------------------------ helpers
Abs(x) == IF x < 0 THEN -x ELSE x

Range(f) == {f[x] : x \in DOMAIN f}

RECURSIVE SumSeq(_)
SumSeq(s) == IF s = <<>> THEN 0 ELSE Head(s) + SumSeq(Tail(s))

RECURSIVE Gcd(_, _)
Gcd(a, b) == IF b = 0 THEN a ELSE Gcd(b, a % b)

RECURSIVE LcmUpTo(_)
LcmUpTo(n) ==
    IF n <= 1 THEN 1
    ELSE LET l == LcmUpTo(n - 1) IN (l * n) \div Gcd(l, n)

\* Sequences over S of length exactly n
SeqsOfLen(S, n) == [1..n -> S]

\* Sequences of n pairwise distinct elements of S (samples without replacement)
RECURSIVE Arrangements(_, _)
Arrangements(S, n) ==
    IF n = 0 THEN {<<>>}
    ELSE UNION {{Append(a, x) : x \in S \ Range(a)} : a \in Arrangements(S, n - 1)}

Entities(n) == 0..(n - 1)
Relations == 0..(NRel - 1)
Triplets(n) == Entities(n) \X Relations \X Entities(n)

\* ------------------------------------------------------------------ the model
\* model.predict is a deterministic function of the triplet.  A "table" model
\* is an arbitrary such function, fixed triplet by triplet when first asked; a
\* "dist" model scores -(|s - s0| + |o - o0|) against a reference triplet.
Scores == 0..MaxScore

\* The scores of a "rtable" model (an arbitrary function as well) lie on both
\* sides of zero.
RelScores == {0 - 1, 0, 1}

Score(m, t) ==
    IF m.kind = "dist"
    THEN 0 - (Abs(t[1] - m.ref[1]) + Abs(t[3] - m.ref[3]))
    ELSE m.table[t]

\* The models that agree with m and score every triplet of T.
Asked(m, T) ==
    IF m.kind = "dist" THEN {m}
    ELSE {[m EXCEPT !.table = f @@ m.table] :
            f \in [T \ DOMAIN m.table -> IF m.kind = "rtable" THEN RelScores ELSE Scores]}

\* model.predict(X).ravel()
Predict(m, B) == [j \in DOMAIN B |-> Score(m, B[j])]

\* model.predict(X, X_lit_s, X_lit_o).ravel(): a deterministic function of the
\* triplet and of both literal rows.
PredictLit(m, B, Ls, Lo) ==
    [j \in DOMAIN B |-> Score(m, B[j]) + 2 * Ls[j][1] - 3 * Lo[j][1]]

\* Mutant: the literal rows are always taken for the subject column.
LitRowsSubject(L, B, c) == [j \in DOMAIN B |-> L[B[j][1] + 1]]

\* X_lit[X[:, c]]: a new array holding the literal row of the entity in
\* column c of every row of X
LitRows(L, B, c) == [j \in DOMAIN B |-> L[B[j][c + 1] + 1]]

\* ------------------------------------------------------------------ numpy / scipy
\* X[:, c] = e on a copy
SetColumn(B, c, e) == [j \in DOMAIN B |-> [B[j] EXCEPT ![c + 1] = e]]

\* scores[:, idx] = y   (idx is the numpy column; columns are 1-based here)
SetScoreColumn(S, idx, y) == [j \in DOMAIN S |-> [S[j] EXCEPT ![idx + 1] = y[j]]]

\* np.zeros([M, N])
Zeros(M, N) == [j \in 1..M |-> [c \in 1..N |-> 0]]

\* Mutant: the candidate's column is its loop index (slot zero is not skipped).
ColumnOfSame(ii) == ii

\* idx = i+1
ColumnOf(ii) == ii + 1

\* Mutant: ties get the lowest rank of the group (method='min'), doubled.
RankDataMin(s, c) == 2 * (Cardinality({j \in DOMAIN s : s[j] < s[c + 1]}) + 1)

\* Mutant: descending order (the largest score gets rank 1), doubled.
RankDataDesc(s, c) ==
    2 * Cardinality({j \in DOMAIN s : s[j] > s[c + 1]})
    + Cardinality({j \in DOMAIN s : s[j] = s[c + 1]}) + 1

\* 2 * st.rankdata(s)[c]: ascending ranks, ties get the average rank of their
\* group (scipy's default method='average').
RankData(s, c) ==
    2 * Cardinality({j \in DOMAIN s : s[j] < s[c + 1]})
    + Cardinality({j \in DOMAIN s : s[j] = s[c + 1]}) + 1

\* (np.mean(1/ranks_h) + np.mean(1/ranks_t)) / 2 as a fraction; 1/rank is
\* 2/doubled rank and D is a common multiple of all doubled ranks.
MeanReciprocal(rh, rt, N) ==
    LET D == LcmUpTo(2 * N)
        M == Len(rh)
    IN  [num |-> SumSeq([j \in 1..M |-> (2 * D) \div rh[j]])
                 + SumSeq([j \in 1..M |-> (2 * D) \div rt[j]]),
         den |-> 2 * M * D]

\* (np.mean(ranks_h <= k) + np.mean(ranks_t <= k)) / 2 as a fraction
MeanHits(rh, rt, kk) ==
    [num |-> Cardinality({j \in DOMAIN rh : rh[j] <= 2 * kk})
             + Cardinality({j \in DOMAIN rt : rt[j] <= 2 * kk}),
     den |-> 2 * Len(rh)]

\* Python's None and an int n for the optional argument n_sample
None == <<>>
Some(n) == <<n>>
Val(x) == x[1]

\* N = n_sample+1 if n_sample is not None else n_e+1
NumColumns(ns, ne) == IF ns # None THEN Val(ns) + 1 ELSE ne + 1

\* Mutant: the candidates are drawn with replacement (replace=True).
CandidatePoolsWithReplacement(ns, ne) ==
    IF ns # None
    THEN [1..Val(ns) -> Entities(ne)]
    ELSE {[j \in 1..ne |-> j - 1]}

\* np.random.choice(np.arange(n_e), size=n_sample, replace=False), or
\* np.arange(n_e); the empty set when numpy raises ValueError.
CandidatePools(ns, ne) ==
    IF ns # None
    THEN IF Val(ns) <= ne THEN Arrangements(Entities(ne), Val(ns)) ELSE {}
    ELSE {[j \in 1..ne |-> j - 1]}

\* ------------------------------------------------------------------ eval_embeddings
NoValue == <<>>

EvalIdle ==
    /\ model = NoValue /\ X_test = NoValue /\ n_sample = NoValue /\ k = 0
    /\ ents = NoValue /\ X_corr_h = NoValue /\ X_corr_t = NoValue
    /\ scores_h = NoValue /\ scores_t = NoValue /\ ranks_h = NoValue
    /\ ranks_t = NoValue /\ mrr = NoValue /\ hitsk = NoValue
    /\ X_lit = NoValue /\ X_lit_s_ori = NoValue /\ X_lit_o_ori = NoValue
    /\ call_h = NoValue /\ call_t = NoValue /\ writes = NoValue

TrainIdle ==
    /\ script = NoValue /\ args = NoValue /\ M_train = 0 /\ files = {}
    /\ load_path = NoValue /\ checkpoint_path = NoValue /\ epoch = 0 /\ it = 0
    /\ mb_iter = NoValue /\ X_mb = NoValue /\ m_mb = 0 /\ X_train_mb = NoValue
    /\ y_true_mb = NoValue /\ steps = NoValue /\ normalized = NoValue
    /\ logged = NoValue /\ saved = NoValue /\ filter_s_test = NoValue
    /\ filter_o_test = NoValue /\ report = FALSE
    /\ lr = NoValue /\ ops = NoValue /\ pairs = NoValue /\ acc_rows = NoValue

RelIdle == X_corr_r = NoValue /\ scores_r = NoValue /\ ranks_r = NoValue

ArrIdle == heap = NoValue /\ X = 0 /\ X_in = NoValue

NegIdle ==
    /\ n_r = 0 /\ n_s = 0 /\ n_o = 0 /\ X_corr = 0 /\ row = 0
    /\ hc = NoValue /\ tc = NoValue /\ rc = NoValue /\ result = 0

MbIdle == mb_size = 0 /\ shuffle = FALSE /\ X_shuff = 0 /\ batches = NoValue

\* The locals of eval_embeddings before its first statement
EvalLocalsUnset ==
    /\ k = 0
    /\ ents = NoValue
    /\ i = 0
    /\ X_corr_h = NoValue
    /\ X_corr_t = NoValue
    /\ scores_h = NoValue
    /\ scores_t = NoValue
    /\ ranks_h = NoValue
    /\ ranks_t = NoValue
    /\ mrr = NoValue
    /\ hitsk = NoValue
    /\ X_lit_s_ori = NoValue
    /\ X_lit_o_ori = NoValue
    /\ call_h = NoValue
    /\ call_t = NoValue
    /\ writes = NoValue

\* eval_embeddings(model, X_test, n_e, k, n_sample) with X_lit=None
InitEval ==
    /\ fn = "eval_embeddings"
    /\ ArrIdle /\ NegIdle /\ MbIdle /\ RelIdle /\ TrainIdle
    /\ pc = "start"
    /\ n_e \in 1..MaxEnt
    /\ X_test \in UNION {SeqsOfLen(Triplets(n_e), M) : M \in 1..MaxRows}
    /\ Len(X_test) * n_e <= MaxWork
    /\ n_sample \in {None} \cup {Some(n) : n \in 0..(n_e + 1)}
    /\ \/ model = [kind |-> "dist", ref |-> X_test[1]]
       \/ /\ n_e <= MaxTableEnt
          /\ model = [kind |-> "table", table |-> <<>>]
    /\ X_lit = None
    /\ EvalLocalsUnset

\* eval_embeddings(model, X_test, n_e, k, n_sample, X_lit) with a literal matrix
InitEvalLit ==
    /\ fn = "eval_embeddings"
    /\ ArrIdle /\ NegIdle /\ MbIdle /\ RelIdle /\ TrainIdle
    /\ pc = "start"
    /\ n_e \in 1..MaxLitEnt
    /\ X_test \in UNION {SeqsOfLen(Triplets(n_e), M) : M \in 1..MaxRows}
    /\ Len(X_test) * n_e <= MaxWork
    /\ n_sample \in {None} \cup {Some(n) : n \in 0..(n_e + 1)}
    /\ model = [kind |-> "dist", ref |-> X_test[1]]
    /\ X_lit \in [1..n_e -> {<<v>> : v \in 0..(MaxLit - 1)}]
    /\ EvalLocalsUnset

\* lines 81-100: the copies, the score matrices and the true triplets' scores
EvalHead(m) ==
    LET M == Len(X_test)
        N == NumColumns(n_sample, n_e)
        ls == IF X_lit = None THEN NoValue ELSE LitRows(X_lit, X_test, 0)
        lo == IF X_lit = None THEN NoValue ELSE LitRows(X_lit, X_test, 2)
        y == IF X_lit = None THEN Predict(m, X_test)
             ELSE PredictLit(m, X_test, ls, lo)
    IN  /\ model' = m
        /\ X_corr_h' = X_test
        /\ X_corr_t' = X_test
        /\ X_lit_s_ori' = ls
        /\ X_lit_o_ori' = lo
        /\ scores_h' = SetScoreColumn(Zeros(M, N), 0, y)
        /\ scores_t' = SetScoreColumn(Zeros(M, N), 0, y)
        /\ writes' = [c \in 1..N |-> IF c = 1 THEN 1 ELSE 0]

\* lines 81-106, sampling succeeds
EvalStart ==
    /\ fn = "eval_embeddings" /\ pc = "start"
    /\ CandidatePools(n_sample, n_e) # {}
    /\ \E m \in Asked(model, Range(X_test)), pool \in CandidatePools(n_sample, n_e) :
         /\ EvalHead(m)
         /\ ents' = pool
    /\ i' = 0
    /\ pc' = "loop"
    /\ UNCHANGED <<X_test, n_e, n_sample, k, ranks_h, ranks_t, mrr, hitsk,
                   X_lit, call_h, call_t>>
    /\ UNCHANGED <<fn, arrVars, negVars, mbVars, relVars, trainVars>>

\* lines 81-104, np.random.choice raises ValueError (n_sample > n_e)
EvalRaise ==
    /\ fn = "eval_embeddings" /\ pc = "start"
    /\ CandidatePools(n_sample, n_e) = {}
    /\ \E m \in Asked(model, Range(X_test)) : EvalHead(m)
    /\ pc' = "ValueError"
    /\ UNCHANGED <<X_test, n_e, n_sample, k, ents, i, ranks_h, ranks_t, mrr, hitsk,
                   X_lit, call_h, call_t>>
    /\ UNCHANGED <<fn, arrVars, negVars, mbVars, relVars, trainVars>>

\* lines 108-124, one iteration of the candidate loop
EvalCandidate ==
    /\ fn = "eval_embeddings" /\ pc = "loop"
    /\ i < Len(ents)
    /\ LET e == ents[i + 1]
           idx == ColumnOf(i)
           Xh == SetColumn(X_corr_h, 0, e)
           Xt == SetColumn(X_corr_t, 2, e)
           X_lit_s == IF X_lit = None THEN None ELSE LitRows(X_lit, Xh, 0)
           X_lit_o == IF X_lit = None THEN None ELSE LitRows(X_lit, Xt, 2)
           lso == IF X_lit = None THEN None ELSE X_lit_s_ori
           loo == IF X_lit = None THEN None ELSE X_lit_o_ori
       IN  \E m \in Asked(model, Range(Xh) \cup Range(Xt)) :
             LET y_h == IF X_lit = None THEN Predict(m, Xh)
                        ELSE PredictLit(m, Xh, X_lit_s, loo)
                 y_t == IF X_lit = None THEN Predict(m, Xt)
                        ELSE PredictLit(m, Xt, lso, X_lit_o)
             IN  /\ model' = m
                 /\ X_corr_h' = Xh
                 /\ X_corr_t' = Xt
                 /\ call_h' = [X |-> Xh, lit_s |-> X_lit_s, lit_o |-> loo]
                 /\ call_t' = [X |-> Xt, lit_s |-> lso, lit_o |-> X_lit_o]
                 /\ scores_h' = SetScoreColumn(scores_h, idx, y_h)
                 /\ scores_t' = SetScoreColumn(scores_t, idx, y_t)
                 /\ writes' = [writes EXCEPT ![idx + 1] = @ + 1]
    /\ i' = i + 1
    /\ UNCHANGED <<pc, X_test, n_e, n_sample, k, ents, ranks_h, ranks_t, mrr, hitsk,
                   X_lit, X_lit_s_ori, X_lit_o_ori>>
    /\ UNCHANGED <<fn, arrVars, negVars, mbVars, relVars, trainVars>>

\* lines 126-132.  The argument k is read at line 130 only, so its value is
\* drawn where it is first used.
EvalRank ==
    /\ fn = "eval_embeddings" /\ pc = "loop"
    /\ i = Len(ents)
    /\ \E kk \in 1..MaxK :
         LET rh == [j \in DOMAIN scores_h |-> RankData(scores_h[j], 0)]
             rt == [j \in DOMAIN scores_t |-> RankData(scores_t[j], 0)]
         IN  /\ k' = kk
             /\ ranks_h' = rh
             /\ ranks_t' = rt
             /\ mrr' = MeanReciprocal(rh, rt, NumColumns(n_sample, n_e))
             /\ hitsk' = MeanHits(rh, rt, kk)
    /\ pc' = "done"
    /\ UNCHANGED <<model, X_test, n_e, n_sample, ents, i, X_corr_h, X_corr_t,
                   scores_h, scores_t, X_lit, X_lit_s_ori, X_lit_o_ori,
                   call_h, call_t, writes>>
    /\ UNCHANGED <<fn, arrVars, negVars, mbVars, relVars, trainVars>>

NextEval == EvalStart \/ EvalRaise \/ EvalCandidate \/ EvalRank

SpecEval == InitEval /\ [][NextEval]_vars

SpecEvalLit == InitEvalLit /\ [][NextEval]_vars

\* ------------------------------------------------------------------ eval_embeddings_rel
\* np.mean(1/ranks_r) as a fraction
MeanReciprocalOne(rr, N) ==
    LET D == LcmUpTo(2 * N)
    IN  [num |-> SumSeq([j \in DOMAIN rr |-> (2 * D) \div rr[j]]),
         den |-> Len(rr) * D]

\* np.mean(ranks_r <= k) as a fraction
MeanHitsOne(rr, kk) ==
    [num |-> Cardinality({j \in DOMAIN rr : rr[j] <= 2 * kk}), den |-> Len(rr)]

\* for i, r in enumerate(np.arange(5))
NumCandRel == 5

\* eval_embeddings_rel(model, X_test, n_r, k) with X_lit_s = X_lit_o = None.
\* The scores depend on the relation only through the model; subject and
\* object range over OtherVocab entities.
InitRel ==
    /\ fn = "eval_embeddings_rel"
    /\ ArrIdle /\ MbIdle /\ TrainIdle
    /\ pc = "start"
    /\ n_e = 0 /\ n_s = 0 /\ n_o = 0 /\ X_corr = 0 /\ row = 0
    /\ hc = NoValue /\ tc = NoValue /\ rc = NoValue /\ result = 0
    /\ n_r \in 1..MaxRel
    /\ X_test \in UNION {SeqsOfLen(Entities(OtherVocab) \X Entities(n_r) \X Entities(OtherVocab), M) :
                            M \in 1..MaxRows}
    /\ Len(X_test) * n_r <= MaxRelWork
    /\ \A j \in DOMAIN X_test : X_test[j][1] = X_test[1][1] /\ X_test[j][3] = X_test[1][3]
    /\ model = [kind |-> "rtable", table |-> <<>>]
    /\ n_sample = NoValue /\ X_lit = NoValue
    /\ EvalLocalsUnset
    /\ RelIdle

\* lines 169-180: copy, score matrix, the true triplets' scores into column 0
RelEvalStart ==
    /\ fn = "eval_embeddings_rel" /\ pc = "start"
    /\ \E m \in Asked(model, Range(X_test)) :
         /\ model' = m
         /\ scores_r' = SetScoreColumn(Zeros(Len(X_test), n_r), 0, Predict(m, X_test))
    /\ X_corr_r' = X_test
    /\ writes' = [c \in 1..n_r |-> IF c = 1 THEN 1 ELSE 0]
    /\ i' = 0
    /\ pc' = "loop"
    /\ UNCHANGED <<fn, n_e, X_test, n_sample, k, ents, X_corr_h, X_corr_t, scores_h,
                   scores_t, ranks_h, ranks_t, mrr, hitsk, X_lit, X_lit_s_ori,
                   X_lit_o_ori, call_h, call_t, ranks_r, arrVars, negVars, mbVars, trainVars>>

\* lines 182-190, one candidate relation r = i with column i inside the matrix
RelEvalCandidate ==
    /\ fn = "eval_embeddings_rel" /\ pc = "loop"
    /\ i < NumCandRel /\ i < n_r
    /\ LET Xr == SetColumn(X_corr_r, 1, i)
       IN  \E m \in Asked(model, Range(Xr)) :
             /\ model' = m
             /\ X_corr_r' = Xr
             /\ scores_r' = SetScoreColumn(scores_r, i, Predict(m, Xr))
    /\ writes' = [writes EXCEPT ![i + 1] = @ + 1]
    /\ i' = i + 1
    /\ UNCHANGED <<fn, pc, n_e, X_test, n_sample, k, ents, X_corr_h, X_corr_t, scores_h,
                   scores_t, ranks_h, ranks_t, mrr, hitsk, X_lit, X_lit_s_ori,
                   X_lit_o_ori, call_h, call_t, ranks_r, arrVars, negVars, mbVars, trainVars>>

\* lines 182-190, candidate relation r = i >= n_r: scores_r[:, i] is outside
\* the M x n_r matrix and numpy raises IndexError
RelEvalIndexError ==
    /\ fn = "eval_embeddings_rel" /\ pc = "loop"
    /\ i < NumCandRel /\ i >= n_r
    /\ LET Xr == SetColumn(X_corr_r, 1, i)
       IN  \E m \in Asked(model, Range(Xr)) :
             /\ model' = m
             /\ X_corr_r' = Xr
    /\ pc' = "IndexError"
    /\ UNCHANGED <<fn, n_e, i, X_test, n_sample, k, ents, X_corr_h, X_corr_t, scores_h,
                   scores_t, ranks_h, ranks_t, mrr, hitsk, X_lit, X_lit_s_ori,
                   X_lit_o_ori, call_h, call_t, writes, scores_r, ranks_r,
                   arrVars, negVars, mbVars, trainVars>>

\* lines 192-199: rank of the true relation's column, MRR and Hits@k
RelEvalRank ==
    /\ fn = "eval_embeddings_rel" /\ pc = "loop"
    /\ i = NumCandRel
    /\ \E kk \in 1..MaxK :
         LET rr == [j \in DOMAIN scores_r |-> RankData(scores_r[j], X_test[j][2])]
         IN  /\ k' = kk
             /\ ranks_r' = rr
             /\ mrr' = MeanReciprocalOne(rr, n_r)
             /\ hitsk' = MeanHitsOne(rr, kk)
    /\ pc' = "done"
    /\ UNCHANGED <<fn, n_e, i, model, X_test, n_sample, ents, X_corr_h, X_corr_t, scores_h,
                   scores_t, ranks_h, ranks_t, X_lit, X_lit_s_ori,
                   X_lit_o_ori, call_h, call_t, writes, X_corr_r, scores_r,
                   arrVars, negVars, mbVars, trainVars>>

NextRel == RelEvalStart \/ RelEvalCandidate \/ RelEvalIndexError \/ RelEvalRank

SpecRel == InitRel /\ [][NextRel]_vars

\* ------------------------------------------------------------------ arrays on the heap
\* Mutant: no copy is made, the name refers to the same array object.
NpAlias(h, a) == [heap |-> h, ref |-> a]

\* np.copy(a): a new array object holding the rows of object a
NpCopy(h, a) == [heap |-> Append(h, h[a]), ref |-> Len(h) + 1]

\* A new list or array object holding rows ([] / np.array(list) / fancy indexing)
NewArray(h, rows) == [heap |-> Append(h, rows), ref |-> Len(h) + 1]

\* Mutant: the upper bound is included (random.randint(0, n)).
RandIntInclusive(n) == 0..n

\* np.random.randint(n)
RandInt(n) == 0..(n - 1)

\* A[np.arange(M), cols] = vals on the object ref
SetCells(h, ref, cols, vals) ==
    [h EXCEPT ![ref] = [j \in DOMAIN h[ref] |-> [h[ref][j] EXCEPT ![cols[j] + 1] = vals[j]]]]

\* np.where(idxs == v): the positions holding v, ascending
Where(idxs, v) == SelectSeq([j \in DOMAIN idxs |-> j], LAMBDA j : idxs[j] = v)

\* A[mask, col] = vals on the object ref: the p-th masked row gets vals[p]
SetRows(h, ref, mask, col, vals) ==
    [h EXCEPT ![ref] =
        [j \in DOMAIN h[ref] |->
            IF \E q \in DOMAIN mask : mask[q] = j
            THEN [h[ref][j] EXCEPT ![col + 1] = vals[CHOOSE q \in DOMAIN mask : mask[q] = j]]
            ELSE h[ref][j]]]

\* list.append(x) on the object ref
ListAppend(h, ref, x) == [h EXCEPT ![ref] = Append(h[ref], x)]

\* ------------------------------------------------------------------ negative samplers
NegFns == {"sample_negatives", "sample_negatives2",
           "sample_negatives_decoupled", "sample_negatives_rel"}

BatchesOver(S, R, O) == UNION {SeqsOfLen(S \X R \X O, M) : M \in 0..MaxBatch}

\* A call of one sampler on a well-formed batch: every index of X lies in the
\* vocabulary of its slot.
InitNeg ==
    /\ fn \in NegFns
    /\ pc = "start"
    /\ EvalIdle /\ MbIdle /\ RelIdle /\ TrainIdle /\ i = 0
    /\ \/ /\ fn \in {"sample_negatives", "sample_negatives2"}
          /\ n_e \in 1..MaxVocab /\ n_r = 0 /\ n_s = 0 /\ n_o = 0
          /\ X_in \in BatchesOver(Entities(n_e), Entities(OtherVocab), Entities(n_e))
          /\ Len(X_in) * n_e <= MaxWork
       \/ /\ fn = "sample_negatives_decoupled"
          /\ n_e = 0 /\ n_r = 0 /\ n_s \in 1..MaxVocab /\ n_o \in 1..MaxVocab
          /\ X_in \in BatchesOver(Entities(n_s), Entities(OtherVocab), Entities(n_o))
          /\ Len(X_in) * n_s <= MaxWork /\ Len(X_in) * n_o <= MaxWork
       \/ /\ fn = "sample_negatives_rel"
          /\ n_e = 0 /\ n_s = 0 /\ n_o = 0 /\ n_r \in 1..MaxVocab
          /\ X_in \in BatchesOver(Entities(OtherVocab), Entities(n_r), Entities(OtherVocab))
          /\ Len(X_in) * n_r <= MaxWork
    /\ heap = <<X_in>>
    /\ X = 1
    /\ X_corr = 0 /\ row = 0 /\ result = 0
    /\ hc = NoValue /\ tc = NoValue /\ rc = NoValue

\* sample_negatives, lines 31-39
SampleNegatives ==
    /\ fn = "sample_negatives" /\ pc = "start"
    /\ LET M == Len(heap[X])
       IN  \E corr \in [1..M -> RandInt(n_e)], e_idxs \in [1..M -> {0, 2}] :
             LET c == NpCopy(heap, X)
             IN  /\ heap' = SetCells(c.heap, c.ref, e_idxs, corr)
                 /\ X_corr' = c.ref
                 /\ result' = c.ref
    /\ pc' = "done"
    /\ UNCHANGED <<fn, n_e, i, evalVars, relVars, trainVars, mbVars, X, X_in, n_r, n_s, n_o, row, hc, tc, rc>>

\* sample_negatives_decoupled, lines 110-127
SampleNegativesDecoupled ==
    /\ fn = "sample_negatives_decoupled" /\ pc = "start"
    /\ LET M == Len(heap[X])
       IN  \E idxs \in [1..M -> {0, 2}] :
             LET mask_s == Where(idxs, 0)
                 mask_o == Where(idxs, 2)
                 n_idxs_s == Cardinality({j \in 1..M : idxs[j] = 0})
                 n_idxs_o == Cardinality({j \in 1..M : idxs[j] = 2})
             IN  \E corr_s \in [1..n_idxs_s -> RandInt(n_s)],
                    corr_o \in [1..n_idxs_o -> RandInt(n_o)] :
                   LET c == NpCopy(heap, X)
                   IN  /\ heap' = SetRows(SetRows(c.heap, c.ref, mask_s, 0, corr_s),
                                          c.ref, mask_o, 2, corr_o)
                       /\ X_corr' = c.ref
                       /\ result' = c.ref
    /\ pc' = "done"
    /\ UNCHANGED <<fn, n_e, i, evalVars, relVars, trainVars, mbVars, X, X_in, n_r, n_s, n_o, row, hc, tc, rc>>

\* sample_negatives2 line 66 and sample_negatives_rel line 132: X_corr = []
NegListStart ==
    /\ fn \in {"sample_negatives2", "sample_negatives_rel"} /\ pc = "start"
    /\ LET c == NewArray(heap, <<>>)
       IN  heap' = c.heap /\ X_corr' = c.ref
    /\ row' = 0
    /\ pc' = "for"
    /\ UNCHANGED <<fn, n_e, i, evalVars, relVars, trainVars, mbVars, X, X_in, n_r, n_s, n_o, hc, tc, rc, result>>

\* The row x of "for x in X"
CurRow == heap[X][row + 1]

\* sample_negatives2 lines 68-71: next row, first draw of hc
Neg2DrawH ==
    /\ fn = "sample_negatives2" /\ pc = "for" /\ row < Len(heap[X])
    /\ \E v \in RandInt(n_e) : hc' = Some(v)
    /\ pc' = "while_hc"
    /\ UNCHANGED <<fn, n_e, i, evalVars, relVars, trainVars, mbVars, arrVars, n_r, n_s, n_o, X_corr, row, tc, rc, result>>

\* line 72: while hc == h: redraw
Neg2RedrawH ==
    /\ fn = "sample_negatives2" /\ pc = "while_hc" /\ Val(hc) = CurRow[1]
    /\ \E v \in RandInt(n_e) : hc' = Some(v)
    /\ UNCHANGED <<fn, pc, n_e, i, evalVars, relVars, trainVars, mbVars, arrVars, n_r, n_s, n_o, X_corr, row, tc, rc, result>>

\* lines 72-76: hc != h, first draw of tc
Neg2DrawT ==
    /\ fn = "sample_negatives2" /\ pc = "while_hc" /\ Val(hc) # CurRow[1]
    /\ \E v \in RandInt(n_e) : tc' = Some(v)
    /\ pc' = "while_tc"
    /\ UNCHANGED <<fn, n_e, i, evalVars, relVars, trainVars, mbVars, arrVars, n_r, n_s, n_o, X_corr, row, hc, rc, result>>

\* line 77: while tc == t: redraw
Neg2RedrawT ==
    /\ fn = "sample_negatives2" /\ pc = "while_tc" /\ Val(tc) = CurRow[3]
    /\ \E v \in RandInt(n_e) : tc' = Some(v)
    /\ UNCHANGED <<fn, pc, n_e, i, evalVars, relVars, trainVars, mbVars, arrVars, n_r, n_s, n_o, X_corr, row, hc, rc, result>>

\* Mutant: the loop on tc is left without comparing tc with t.
Neg2AppendNoReject ==
    /\ fn = "sample_negatives2" /\ pc = "while_tc"
    /\ LET h == CurRow[1]
           r == CurRow[2]
           t == CurRow[3]
       IN  heap' = ListAppend(ListAppend(heap, X_corr, <<Val(hc), r, t>>),
                              X_corr, <<h, r, Val(tc)>>)
    /\ row' = row + 1
    /\ pc' = "for"
    /\ UNCHANGED <<fn, n_e, i, evalVars, relVars, trainVars, mbVars, X, X_in, n_r, n_s, n_o, X_corr, hc, tc, rc, result>>

\* lines 77-80: tc != t, append [hc, r, t] and [h, r, tc]
Neg2Append ==
    /\ fn = "sample_negatives2" /\ pc = "while_tc" /\ Val(tc) # CurRow[3]
    /\ LET h == CurRow[1]
           r == CurRow[2]
           t == CurRow[3]
       IN  heap' = ListAppend(ListAppend(heap, X_corr, <<Val(hc), r, t>>),
                              X_corr, <<h, r, Val(tc)>>)
    /\ row' = row + 1
    /\ pc' = "for"
    /\ UNCHANGED <<fn, n_e, i, evalVars, relVars, trainVars, mbVars, X, X_in, n_r, n_s, n_o, X_corr, hc, tc, rc, result>>

\* sample_negatives_rel lines 134-137: next row, first draw of rc
RelDraw ==
    /\ fn = "sample_negatives_rel" /\ pc = "for" /\ row < Len(heap[X])
    /\ \E v \in RandInt(n_r) : rc' = Some(v)
    /\ pc' = "while_rc"
    /\ UNCHANGED <<fn, n_e, i, evalVars, relVars, trainVars, mbVars, arrVars, n_r, n_s, n_o, X_corr, row, hc, tc, result>>

\* line 138: while rc == r: redraw
RelRedraw ==
    /\ fn = "sample_negatives_rel" /\ pc = "while_rc" /\ Val(rc) = CurRow[2]
    /\ \E v \in RandInt(n_r) : rc' = Some(v)
    /\ UNCHANGED <<fn, pc, n_e, i, evalVars, relVars, trainVars, mbVars, arrVars, n_r, n_s, n_o, X_corr, row, hc, tc, result>>

\* Mutant: the drawn relation is appended without comparing it with r.
RelAppendNoReject ==
    /\ fn = "sample_negatives_rel" /\ pc = "while_rc"
    /\ heap' = ListAppend(heap, X_corr, <<CurRow[1], Val(rc), CurRow[3]>>)
    /\ row' = row + 1
    /\ pc' = "for"
    /\ UNCHANGED <<fn, n_e, i, evalVars, relVars, trainVars, mbVars, X, X_in, n_r, n_s, n_o, X_corr, hc, tc, rc, result>>

\* lines 138-140: rc != r, append [h, rc, t]
RelAppend ==
    /\ fn = "sample_negatives_rel" /\ pc = "while_rc" /\ Val(rc) # CurRow[2]
    /\ heap' = ListAppend(heap, X_corr, <<CurRow[1], Val(rc), CurRow[3]>>)
    /\ row' = row + 1
    /\ pc' = "for"
    /\ UNCHANGED <<fn, n_e, i, evalVars, relVars, trainVars, mbVars, X, X_in, n_r, n_s, n_o, X_corr, hc, tc, rc, result>>

\* sample_negatives2 line 82 and sample_negatives_rel line 142:
\* return np.array(X_corr, dtype=int)
NegListReturn ==
    /\ fn \in {"sample_negatives2", "sample_negatives_rel"}
    /\ pc = "for" /\ row = Len(heap[X])
    /\ LET c == NewArray(heap, heap[X_corr])
       IN  heap' = c.heap /\ result' = c.ref
    /\ pc' = "done"
    /\ UNCHANGED <<fn, n_e, i, evalVars, relVars, trainVars, mbVars, X, X_in, n_r, n_s, n_o, X_corr, row, hc, tc, rc>>

NextNeg ==
    \/ SampleNegatives
    \/ SampleNegativesDecoupled
    \/ NegListStart
    \/ Neg2DrawH \/ Neg2RedrawH \/ Neg2DrawT \/ Neg2RedrawT \/ Neg2Append
    \/ RelDraw \/ RelRedraw \/ RelAppend
    \/ NegListReturn

SpecNeg == InitNeg /\ [][NextNeg]_vars

\* Fair random draws: the interpreter keeps running, and a redraw loop that
\* some value of randint leaves does not draw the rejected value for ever.
FairDraws ==
    /\ WF_vars(NextNeg)
    /\ SF_vars(Neg2RedrawH /\ Val(hc') # CurRow[1])
    /\ SF_vars(Neg2RedrawT /\ Val(tc') # CurRow[3])
    /\ SF_vars(RelRedraw /\ Val(rc') # CurRow[2])

SpecNegFair == InitNeg /\ [][NextNeg]_vars /\ FairDraws

\* ------------------------------------------------------------------ get_minibatches
Min(a, b) == IF a < b THEN a ELSE b

\* Mutant: the slice loses its last row (off-by-one upper bound).
PySliceShort(a, lo, hi) == SubSeq(a, lo + 1, Min(hi, Len(a)) - 1)

\* a[lo:hi] for 0 <= lo <= hi: the rows lo..hi-1 that exist
PySlice(a, lo, hi) == SubSeq(a, lo + 1, Min(hi, Len(a)))

\* Mutant: rows drawn with replacement (sklearn.utils.resample).
Resampled(rows) == {[j \in DOMAIN rows |-> rows[p[j]]] : p \in [DOMAIN rows -> DOMAIN rows]}

\* sklearn.utils.shuffle(rows): the rows in a permuted order, as a new array
Shuffled(rows) == {[j \in DOMAIN rows |-> rows[p[j]]] : p \in Permutations(DOMAIN rows)}

DataRows == {<<e, 0, 0>> : e \in 0..(MbVals - 1)}

InitMb ==
    /\ fn = "get_minibatches"
    /\ pc = "start"
    /\ EvalIdle /\ NegIdle /\ RelIdle /\ TrainIdle /\ n_e = 0
    /\ X_in \in UNION {SeqsOfLen(DataRows, M) : M \in 0..MaxLen}
    /\ heap = <<X_in>>
    /\ X = 1
    /\ mb_size \in 1..MaxMb
    /\ shuffle \in BOOLEAN
    /\ X_shuff = 0
    /\ batches = <<>>
    /\ i = 0

\* lines 279-285: copy, shuffle if asked, start of range(0, M, mb_size)
MbStart ==
    /\ pc = "start"
    /\ LET c == NpCopy(heap, X)
       IN  IF shuffle
           THEN \E rows \in Shuffled(c.heap[c.ref]) :
                   LET d == NewArray(c.heap, rows)
                   IN  heap' = d.heap /\ X_shuff' = d.ref
           ELSE heap' = c.heap /\ X_shuff' = c.ref
    /\ i' = 0
    /\ pc' = "for"
    /\ UNCHANGED <<fn, n_e, evalVars, relVars, trainVars, negVars, X, X_in, mb_size, shuffle, batches>>

\* lines 285-286: yield X_shuff[i:i + mb_size]
MbYield ==
    /\ pc = "for"
    /\ i < Len(heap[X_shuff])
    /\ batches' = Append(batches, PySlice(heap[X_shuff], i, i + mb_size))
    /\ i' = i + mb_size
    /\ UNCHANGED <<fn, pc, n_e, evalVars, relVars, trainVars, negVars, arrVars, mb_size, shuffle, X_shuff>>

\* line 285: the range is exhausted, the generator ends
MbStop ==
    /\ pc = "for"
    /\ i >= Len(heap[X_shuff])
    /\ pc' = "done"
    /\ UNCHANGED <<fn, n_e, i, evalVars, relVars, trainVars, negVars, arrVars, mbVars>>

NextMb == MbStart \/ MbYield \/ MbStop

SpecMb == InitMb /\ [][NextMb]_vars

\* ------------------------------------------------------------------ training scripts
\* The four scripts: src/run_baselines.py, src/experiments/run_baselines.py,
\* src/experiments/yago3-10/run_erlmlp_yago.py and run_distmult_lit_yago.py.
\* The loops never look inside a triplet, so a training row is kept as its
\* provenance: [pos |-> TRUE, src |-> j] is row j of X_train and
\* [pos |-> FALSE, src |-> j] a corruption of it made by sample_negatives.
Scripts == {"run_baselines", "experiments/run_baselines", "run_erlmlp_yago",
            "run_distmult_lit_yago"}

HasLossOption(sc) == sc = "run_baselines"
HasResumeOption(sc) == sc = "run_baselines"
HasTestMode(sc) == sc \in {"experiments/run_baselines", "run_distmult_lit_yago"}

\* eval_embeddings(..., n_sample=1000, ...): the default and the value passed
\* by run_erlmlp_yago.py
DefaultNSample == 1000

FilterFiles == {"filter_s_test.npy", "filter_o_test.npy"}

\* Strings are sequences of tokens; '/' is a token of its own.
CheckpointDirs == {<<"models", "/">>, <<"models">>, <<"ckpt", "/">>}

LogIntervals == {0 - 1, 1, 2}

\* --loss is a free string (no choices=); "hinge" stands for every value other
\* than the two the loop compares it with.
LossValues == {"logloss", "rankloss", "hinge"}

\* default of --lr_decay_every in each script
DefaultLrDecayEvery(sc) ==
    IF sc \in {"run_baselines", "experiments/run_baselines"} THEN 10 ELSE 20

TrainArgs(sc) ==
    [loss : IF HasLossOption(sc) THEN LossValues ELSE {"rankloss"},
     lr_decay_every : {DefaultLrDecayEvery(sc)},
     negative_samples : 1..MaxC,
     nepoch : 0..MaxEpoch,
     mbsize : 1..MaxMbSize,
     log_interval : LogIntervals,
     checkpoint_dir : CheckpointDirs,
     resume : IF HasResumeOption(sc) THEN BOOLEAN ELSE {FALSE},
     normalize_embed : BOOLEAN,
     test : {FALSE},
     dataset : {"wordnet"},
     model : {"rescal"}]

\* In test mode the training options are not read.
TestArgs(sc) ==
    IF HasTestMode(sc)
    THEN [loss : {"rankloss"}, lr_decay_every : {DefaultLrDecayEvery(sc)},
          negative_samples : {1}, nepoch : {1}, mbsize : {1},
          log_interval : {1}, checkpoint_dir : CheckpointDirs, resume : {FALSE},
          normalize_embed : {FALSE}, test : {TRUE}, dataset : {"wordnet"},
          model : {"rescal"}]
    ELSE {}

\* a % b of Python for b # 0: the result takes the sign of the divisor
PyMod(a, b) == IF b > 0 THEN a % b ELSE 0 - ((0 - a) % (0 - b))

\* s.rstrip(ch)
RECURSIVE RStrip(_, _)
RStrip(str, ch) ==
    IF str # <<>> /\ str[Len(str)] = ch
    THEN RStrip(SubSeq(str, 1, Len(str) - 1), ch)
    ELSE str

\* src/run_baselines.py:108  'models/{}/{}.bin'.format(args.dataset, args.model)
ResumePath(a) == <<"models", "/", a.dataset, "/", a.model, ".bin">>

\* checkpoint_dir and checkpoint_path of each script
CheckpointPath(sc, a) ==
    LET dir == RStrip(a.checkpoint_dir, "/")
    IN  CASE sc = "run_baselines" ->
               dir \o <<"/", a.dataset>> \o <<"/", a.model, ".bin">>
          [] sc = "experiments/run_baselines" ->
               dir \o <<"/", a.dataset>> \o <<"/", a.model, "_lr", "lr", "_wd", "wd", ".bin">>
          [] sc = "run_erlmlp_yago" ->
               dir \o <<"/", "yago">> \o <<"/", "erlmlp", ".bin">>
          [] sc = "run_distmult_lit_yago" ->
               dir \o <<"/", "yago">> \o <<"/", "distmult_lit", "_lr", "lr", "_wd", "wd", ".bin">>

TrainRows(M) == [j \in 1..M |-> [pos |-> TRUE, src |-> j]]

\* sample_negatives(X_mb, n_e): row j of the result is a corruption of row j
SampleNegativesRows(B) == [j \in DOMAIN B |-> [pos |-> FALSE, src |-> B[j].src]]

\* np.vstack of a list of n arrays, each equal to block
RECURSIVE VStack(_, _)
VStack(block, n) == IF n = 0 THEN <<>> ELSE block \o VStack(block, n - 1)

\* Mutant: one block of negatives whatever the loss.
NegativeBlocksOne(sc, a) == 1

\* How many sample_negatives blocks are stacked: C for the rank loss
\* (range(C)), one for the log loss
NegativeBlocks(sc, a) ==
    IF a.loss = "rankloss" THEN a.negative_samples ELSE 1

RECURSIVE Pow2(_)
Pow2(n) == IF n = 0 THEN 1 ELSE 2 * Pow2(n - 1)

\* Mutant: the rate halves at every epoch.
AnnealedLrEveryEpoch(a, e) == [num |-> 1, den |-> Pow2(e)]

\* lr = args.lr * (0.5 ** (epoch // args.lr_decay_every)), as a fraction of
\* args.lr (lr_decay_every >= 1)
AnnealedLr(a, e) == [num |-> 1, den |-> Pow2(e \div a.lr_decay_every)]

\* model.forward(B): one score per row; the score of a row is named by the row
Forward(B) == [j \in DOMAIN B |-> [score_of |-> B[j]]]

\* Mutant: every element repeated n times in place (repeat_interleave).
RepeatInterleave(v, n) == [q \in 1..(Len(v) * n) |-> v[((q - 1) \div n) + 1]]

\* v.repeat(n) of a 1-d tensor: the whole vector, n times over
Repeat(v, n) == [q \in 1..(Len(v) * n) |-> v[((q - 1) % Len(v)) + 1]]

\* Model.ranking_loss: y_pos.view(-1).repeat(C) against y_neg.view(-1) in
\* F.margin_ranking_loss, one hinge term per position
RankingLoss(y_pos, y_neg, C) ==
    LET rep == Repeat(y_pos, C)
    IN  [q \in DOMAIN y_neg |-> [y_pos |-> rep[q], y_neg |-> y_neg[q]]]

\* skshuffle(X_train_mb, y_true_mb): both arrays under the same permutation
JointShuffled(A, y) ==
    {[A |-> [j \in DOMAIN A |-> A[p[j]]], y |-> [j \in DOMAIN y |-> y[p[j]]]] :
        p \in Permutations(DOMAIN A)}

\* The condition of "# Training logs" in each script
LogDue(sc, a, n) ==
    IF sc \in {"run_baselines", "run_erlmlp_yago"}
    THEN PyMod(n, a.log_interval) = 0
    ELSE a.log_interval # 0 - 1 /\ PyMod(n, a.log_interval) = 0

\* np.random.choice(np.arange(n_e), size=n_sample, replace=False) raises
\* ValueError when n_sample > n_e
ChoiceRaises(ns, ne) == ns > ne

\* eval_embeddings_vertical is not part of the sources; it returns its metrics.
EvalVerticalOutcome(ns, ne) == "returns"

\* What the logging step of each script ends with
LogOutcome(sc, a, ne) ==
    CASE sc = "run_baselines" /\ a.loss = "logloss" -> "returns"
      [] sc = "run_baselines" /\ a.loss # "logloss" ->
            IF ChoiceRaises(DefaultNSample, ne) THEN "ValueError" ELSE "returns"
      [] sc = "run_erlmlp_yago" ->
            IF ChoiceRaises(DefaultNSample, ne) THEN "ValueError" ELSE "returns"
      [] sc = "experiments/run_baselines" -> EvalVerticalOutcome(500, ne)
      [] sc = "run_distmult_lit_yago" -> "NameError"

InitTrain ==
    /\ fn = "train"
    /\ pc = "start"
    /\ EvalIdle /\ ArrIdle /\ NegIdle /\ MbIdle /\ RelIdle /\ i = 0
    /\ script \in Scripts
    /\ args \in TrainArgs(script) \cup TestArgs(script)
    \* only the rank loss reads C
    /\ args.loss # "rankloss" => args.negative_samples = MaxC
    /\ IF args.test
       THEN n_e = DefaultNSample /\ M_train = 0 /\ files \in SUBSET FilterFiles
       ELSE /\ n_e \in IF LogOutcome(script, args, DefaultNSample - 1) = "ValueError"
                       THEN {DefaultNSample - 1, DefaultNSample}
                       ELSE {DefaultNSample}
            /\ M_train \in 0..MaxTrain
            /\ args.nepoch * M_train <= MaxTrainWork
            \* the joint shuffle of the log loss permutes up to 2 * mbsize rows
            /\ args.loss = "logloss" => 2 * args.mbsize <= MaxTrainWork
            /\ files = FilterFiles
    /\ load_path = NoValue /\ checkpoint_path = NoValue
    /\ epoch = 0 /\ it = 0
    /\ mb_iter = NoValue /\ X_mb = NoValue /\ m_mb = 0
    /\ X_train_mb = NoValue /\ y_true_mb = NoValue
    /\ steps = <<>> /\ normalized = <<>> /\ logged = <<>> /\ saved = <<>>
    /\ filter_s_test = NoValue /\ filter_o_test = NoValue /\ report = FALSE
    /\ lr = [num |-> 1, den |-> 1]
    /\ ops = <<>> /\ pairs = NoValue /\ acc_rows = NoValue

trainFrame == <<n_e, i, evalVars, arrVars, negVars, mbVars, relVars>>

trainTrace == <<lr, ops, pairs, acc_rows>>

\* One entry of ops: the operation, the loop counters and the learning rate
\* of the solver when it runs
Op(name) == [op |-> name, epoch |-> epoch, it |-> it, lr |-> lr]

\* src/run_baselines.py:105-120 (and the same lines of the other scripts):
\* resume, checkpoint_dir, checkpoint_path
TrainSetup ==
    /\ fn = "train" /\ pc = "start"
    /\ load_path' = IF HasResumeOption(script) /\ args.resume
                    THEN Some(ResumePath(args)) ELSE None
    /\ checkpoint_path' = CheckpointPath(script, args)
    /\ pc' = IF HasTestMode(script) /\ args.test THEN "test" ELSE "for_epoch"
    /\ UNCHANGED <<fn, script, args, M_train, files, epoch, it, mb_iter, X_mb, m_mb,
                   X_train_mb, y_true_mb, steps, normalized, logged, saved,
                   filter_s_test, filter_o_test, report, trainTrace, trainFrame>>

\* Test mode, loading the filters.  experiments/run_baselines.py:125-130 wraps
\* both loads in try/except; run_distmult_lit_yago.py:143-144 does not.
TestLoadFilters ==
    /\ fn = "train" /\ pc = "test"
    /\ IF FilterFiles \subseteq files
       THEN /\ filter_s_test' = Some("filter_s_test.npy")
            /\ filter_o_test' = Some("filter_o_test.npy")
            /\ pc' = "test_eval"
       ELSE IF script = "experiments/run_baselines"
            THEN /\ filter_s_test' = None
                 /\ filter_o_test' = None
                 /\ pc' = "test_eval"
            ELSE /\ UNCHANGED <<filter_s_test, filter_o_test>>
                 /\ pc' = "FileNotFoundError"
    /\ UNCHANGED <<fn, script, args, M_train, files, load_path, checkpoint_path, epoch, it,
                   mb_iter, X_mb, m_mb, X_train_mb, y_true_mb, steps, normalized, logged,
                   saved, report, trainTrace, trainFrame>>

\* Test mode: load the model, evaluate, print the metrics, exit(0)
TestEvaluate ==
    /\ fn = "train" /\ pc = "test_eval"
    /\ EvalVerticalOutcome(None, n_e) = "returns"
    /\ report' = TRUE
    /\ pc' = "exit"
    /\ UNCHANGED <<fn, script, args, M_train, files, load_path, checkpoint_path, epoch, it,
                   mb_iter, X_mb, m_mb, X_train_mb, y_true_mb, steps, normalized, logged,
                   saved, filter_s_test, filter_o_test, trainTrace, trainFrame>>

\* src/run_baselines.py:124-136: next epoch, it = 0, the minibatch generator
\* (which shuffles a copy of X_train), learning rate of every param_group
TrainEpochBegin ==
    /\ fn = "train" /\ pc = "for_epoch"
    /\ epoch < args.nepoch
    /\ it' = 0
    /\ \E rows \in Shuffled(TrainRows(M_train)) : mb_iter' = [rows |-> rows, pos |-> 0]
    /\ lr' = AnnealedLr(args, epoch)
    /\ pc' = "for_mb"
    /\ UNCHANGED <<fn, script, args, M_train, files, load_path, checkpoint_path, epoch,
                   X_mb, m_mb, X_train_mb, y_true_mb, steps, normalized, logged, saved,
                   filter_s_test, filter_o_test, report, ops, pairs, acc_rows,
                   trainFrame>>

\* range(n_epoch) is exhausted: the script ends
TrainFinish ==
    /\ fn = "train" /\ pc = "for_epoch"
    /\ epoch >= args.nepoch
    /\ pc' = "done"
    /\ UNCHANGED <<fn, trainVars, trainFrame>>

\* src/run_baselines.py:138-151: next minibatch, negatives, stacked batch, labels
TrainBuildBatch ==
    /\ fn = "train" /\ pc = "for_mb"
    /\ mb_iter.pos < M_train
    /\ LET B == PySlice(mb_iter.rows, mb_iter.pos, mb_iter.pos + args.mbsize)
           X_neg_mb == VStack(SampleNegativesRows(B), NegativeBlocks(script, args))
       IN  /\ X_mb' = B
           /\ m_mb' = Len(B)
           /\ X_train_mb' = B \o X_neg_mb
           /\ y_true_mb' = [j \in 1..(2 * Len(B)) |-> IF j <= Len(B) THEN 1 ELSE 0]
    /\ mb_iter' = [mb_iter EXCEPT !.pos = @ + args.mbsize]
    /\ pc' = "shuffle"
    /\ UNCHANGED <<fn, script, args, M_train, files, load_path, checkpoint_path, epoch, it,
                   steps, normalized, logged, saved, filter_s_test, filter_o_test, report,
                   trainTrace, trainFrame>>

\* src/run_baselines.py:153-154: the joint shuffle of the log loss
TrainShuffle ==
    /\ fn = "train" /\ pc = "shuffle"
    /\ IF HasLossOption(script) /\ args.loss = "logloss"
       THEN \E sh \in JointShuffled(X_train_mb, y_true_mb) :
               X_train_mb' = sh.A /\ y_true_mb' = sh.y
       ELSE UNCHANGED <<X_train_mb, y_true_mb>>
    /\ pc' = "step"
    /\ UNCHANGED <<fn, script, args, M_train, files, load_path, checkpoint_path, epoch, it,
                   mb_iter, X_mb, m_mb, steps, normalized, logged, saved, filter_s_test,
                   filter_o_test, report, trainTrace, trainFrame>>

\* src/run_baselines.py:156-170: forward, loss, backward, solver.step(),
\* zero_grad().  With a --loss that is neither 'rankloss' nor 'logloss' no
\* branch assigns loss and loss.backward() raises NameError.
TrainStep ==
    /\ fn = "train" /\ pc = "step"
    /\ LET y == Forward(X_train_mb)
           y_pos == PySlice(y, 0, m_mb)
           y_neg == SubSeq(y, m_mb + 1, Len(y))
       IN  CASE args.loss = "rankloss" ->
                  /\ pairs' = RankingLoss(y_pos, y_neg, args.negative_samples)
                  /\ ops' = ops \o <<Op("forward"), Op("ranking_loss"), Op("backward"),
                                     Op("step"), Op("zero_grad")>>
                  /\ steps' = Append(steps, <<epoch, it>>)
                  /\ pc' = "normalize"
             [] args.loss = "logloss" ->
                  /\ ops' = ops \o <<Op("forward"), Op("log_loss"), Op("backward"),
                                     Op("step"), Op("zero_grad")>>
                  /\ steps' = Append(steps, <<epoch, it>>)
                  /\ pc' = "normalize"
                  /\ UNCHANGED pairs
             [] OTHER ->
                  /\ ops' = Append(ops, Op("forward"))
                  /\ pc' = "NameError"
                  /\ UNCHANGED <<steps, pairs>>
    /\ UNCHANGED <<fn, script, args, M_train, files, load_path, checkpoint_path, epoch, it,
                   mb_iter, X_mb, m_mb, X_train_mb, y_true_mb, normalized, logged, saved,
                   filter_s_test, filter_o_test, report, lr, acc_rows, trainFrame>>

\* Mutant: the embeddings are renormalised whatever normalize_embed says.
TrainNormalizeAlways ==
    /\ fn = "train" /\ pc = "normalize"
    /\ normalized' = Append(normalized, <<epoch, it>>)
    /\ ops' = Append(ops, Op("normalize_embeddings"))
    /\ pc' = "log"
    /\ UNCHANGED <<fn, script, args, M_train, files, load_path, checkpoint_path, epoch, it,
                   mb_iter, X_mb, m_mb, X_train_mb, y_true_mb, steps, logged, saved,
                   filter_s_test, filter_o_test, report, lr, pairs, acc_rows, trainFrame>>

\* src/run_baselines.py:172-173
TrainNormalize ==
    /\ fn = "train" /\ pc = "normalize"
    /\ IF args.normalize_embed
       THEN /\ normalized' = Append(normalized, <<epoch, it>>)
            /\ ops' = Append(ops, Op("normalize_embeddings"))
       ELSE UNCHANGED <<normalized, ops>>
    /\ pc' = "log"
    /\ UNCHANGED <<fn, script, args, M_train, files, load_path, checkpoint_path, epoch, it,
                   mb_iter, X_mb, m_mb, X_train_mb, y_true_mb, steps, logged, saved,
                   filter_s_test, filter_o_test, report, lr, pairs, acc_rows, trainFrame>>

\* src/run_baselines.py:177-207: the logging step runs; it can end the run
\* with an exception.  For the log loss it reports pos_acc on pred[:m] and
\* neg_acc on pred[m:] (lines 185-186).
TrainLog ==
    /\ fn = "train" /\ pc = "log"
    /\ LogDue(script, args, it)
    /\ logged' = Append(logged, <<epoch, it>>)
    /\ ops' = Append(ops, Op("log"))
    /\ acc_rows' = IF HasLossOption(script) /\ args.loss = "logloss"
                   THEN [pos |-> PySlice(X_train_mb, 0, m_mb),
                         neg |-> SubSeq(X_train_mb, m_mb + 1, Len(X_train_mb))]
                   ELSE acc_rows
    /\ pc' = IF LogOutcome(script, args, n_e) = "returns" THEN "it_inc"
             ELSE LogOutcome(script, args, n_e)
    /\ UNCHANGED <<fn, script, args, M_train, files, load_path, checkpoint_path, epoch, it,
                   mb_iter, X_mb, m_mb, X_train_mb, y_true_mb, steps, normalized, saved,
                   filter_s_test, filter_o_test, report, lr, pairs, trainFrame>>

\* src/run_baselines.py:178: the condition is false
TrainNoLog ==
    /\ fn = "train" /\ pc = "log"
    /\ ~LogDue(script, args, it)
    /\ pc' = "it_inc"
    /\ UNCHANGED <<fn, trainVars, trainFrame>>

\* src/run_baselines.py:209
TrainIterEnd ==
    /\ fn = "train" /\ pc = "it_inc"
    /\ it' = it + 1
    /\ acc_rows' = NoValue
    /\ pc' = "for_mb"
    /\ UNCHANGED <<fn, script, args, M_train, files, load_path, checkpoint_path, epoch,
                   mb_iter, X_mb, m_mb, X_train_mb, y_true_mb, steps, normalized, logged,
                   saved, filter_s_test, filter_o_test, report, lr, ops, pairs, trainFrame>>

\* src/run_baselines.py:211-214: the generator is exhausted; checkpoint
TrainEpochEnd ==
    /\ fn = "train" /\ pc = "for_mb"
    /\ mb_iter.pos >= M_train
    /\ saved' = Append(saved, <<epoch, checkpoint_path>>)
    /\ ops' = Append(ops, Op("save"))
    /\ epoch' = epoch + 1
    /\ pc' = "for_epoch"
    /\ UNCHANGED <<fn, script, args, M_train, files, load_path, checkpoint_path, it,
                   mb_iter, X_mb, m_mb, X_train_mb, y_true_mb, steps, normalized, logged,
                   filter_s_test, filter_o_test, report, lr, pairs, acc_rows, trainFrame>>

NextTrain ==
    \/ TrainSetup
    \/ TestLoadFilters \/ TestEvaluate
    \/ TrainEpochBegin \/ TrainFinish
    \/ TrainBuildBatch \/ TrainShuffle \/ TrainStep \/ TrainNormalize
    \/ TrainLog \/ TrainNoLog \/ TrainIterEnd
    \/ TrainEpochEnd

SpecTrain == InitTrain /\ [][NextTrain]_vars

\* Runs over more epochs with --lr_decay_every given: rank loss, one row per
\* minibatch, a dataset of DefaultNSample entities, the other options fixed.
ScheduleArgs(sc) ==
    [loss : {"rankloss"},
     lr_decay_every : 1..MaxDecay,
     negative_samples : {1},
     nepoch : 0..MaxSchedEpoch,
     mbsize : {1},
     log_interval : {2},
     checkpoint_dir : {<<"models", "/">>},
     resume : {FALSE},
     normalize_embed : BOOLEAN,
     test : {FALSE},
     dataset : {"wordnet"},
     model : {"rescal"}]

InitSchedule ==
    /\ fn = "train"
    /\ pc = "start"
    /\ EvalIdle /\ ArrIdle /\ NegIdle /\ MbIdle /\ RelIdle /\ i = 0
    /\ script \in Scripts
    /\ args \in ScheduleArgs(script) \cup TestArgs(script)
    /\ n_e = DefaultNSample
    /\ IF args.test
       THEN M_train = 0 /\ files \in SUBSET FilterFiles
       ELSE M_train \in 0..MaxSchedTrain /\ files = FilterFiles
    /\ load_path = NoValue /\ checkpoint_path = NoValue
    /\ epoch = 0 /\ it = 0
    /\ mb_iter = NoValue /\ X_mb = NoValue /\ m_mb = 0
    /\ X_train_mb = NoValue /\ y_true_mb = NoValue
    /\ steps = <<>> /\ normalized = <<>> /\ logged = <<>> /\ saved = <<>>
    /\ filter_s_test = NoValue /\ filter_o_test = NoValue /\ report = FALSE
    /\ lr = [num |-> 1, den |-> 1]
    /\ ops = <<>> /\ pairs = NoValue /\ acc_rows = NoValue

SpecSchedule == InitSchedule /\ [][NextTrain]_vars

\* ------------------------------------------------------------------ claims on eval_embeddings
Done == pc = "done"

\* The triplet scored into column c (c >= 2 here, numpy column c-1) of row j
CandH(j, c) == [X_test[j] EXCEPT ![1] = ents[c - 1]]
CandT(j, c) == [X_test[j] EXCEPT ![3] = ents[c - 1]]
CandCols == 2..(Len(ents) + 1)

OwnSubjectInPool(j) == X_test[j][1] \in Range(ents)
OwnObjectInPool(j) == X_test[j][3] \in Range(ents)

IsOne(q) == q.num = q.den

\* The model scores each true triplet strictly higher than each of its
\* corrupted candidates.
TrueStrictlyHighest ==
    \A j \in DOMAIN X_test : \A c \in CandCols :
        /\ CandH(j, c) # X_test[j] => Score(model, X_test[j]) > Score(model, CandH(j, c))
        /\ CandT(j, c) # X_test[j] => Score(model, X_test[j]) > Score(model, CandT(j, c))

\* The model scores each true triplet strictly lower than each of its
\* corrupted candidates.
TrueStrictlyLowest ==
    \A j \in DOMAIN X_test : \A c \in CandCols :
        /\ CandH(j, c) # X_test[j] => Score(model, X_test[j]) < Score(model, CandH(j, c))
        /\ CandT(j, c) # X_test[j] => Score(model, X_test[j]) < Score(model, CandT(j, c))

AllScoresIdentical ==
    \A j \in DOMAIN X_test : \A c \in DOMAIN scores_h[j] :
        scores_h[j][c] = scores_h[1][1] /\ scores_t[j][c] = scores_h[1][1]

C4_Scenario ==
    /\ n_e = 4
    /\ X_test = << <<0, 0, 1>> >>
    /\ n_sample = None
    /\ model = [kind |-> "dist", ref |-> <<0, 0, 1>>]

C5_FallbackToExhaustive ==
    (pc # "start" /\ (n_sample = None \/ Val(n_sample) >= n_e)) =>
        /\ pc # "ValueError"
        /\ Len(ents) = n_e
        /\ Range(ents) = Entities(n_e)

\* ------------------------------------------------------------------ claims on the negative samplers
DiffSlots(a, b) == {c \in 1..3 : a[c] # b[c]}

\* C6: sample_negatives returns a batch of the same shape; each row differs
\* from its input row in at most one slot, never the relation, and its
\* subject and object lie in [0, n_e).
C6_SampleNegativesOneSlot ==
    (fn = "sample_negatives" /\ pc = "done") =>
        LET out == heap[result]
        IN  /\ Len(out) = Len(X_in)
            /\ \A j \in DOMAIN X_in :
                /\ Len(out[j]) = 3
                /\ Cardinality(DiffSlots(out[j], X_in[j])) <= 1
                /\ out[j][2] = X_in[j][2]
                /\ out[j][1] \in Entities(n_e)
                /\ out[j][3] \in Entities(n_e)

C6_Witness ==
    /\ fn = "sample_negatives" /\ pc = "done"
    /\ Len(X_in) = 2
    /\ DiffSlots(heap[result][1], X_in[1]) = {1}
    /\ DiffSlots(heap[result][2], X_in[2]) = {3}

C8_InputNotMutated ==
    /\ heap[X] = X_in
    /\ pc = "done" => result # X /\ result \in DOMAIN heap

C8_Witness ==
    /\ fn = "sample_negatives_decoupled" /\ pc = "done"
    /\ Len(X_in) = 2
    /\ \A j \in 1..2 : heap[result][j] # X_in[j]
    /\ heap[X] = X_in

\* ------------------------------------------------------------------ claims on get_minibatches
RECURSIVE Concat(_)
Concat(ss) == IF ss = <<>> THEN <<>> ELSE Head(ss) \o Concat(Tail(ss))

CeilDiv(a, b) == (a + b - 1) \div b

Count(a, r) == Cardinality({j \in DOMAIN a : a[j] = r})

SameMultiset(a, b) ==
    /\ Len(a) = Len(b)
    /\ \A r \in Range(a) \cup Range(b) : Count(a, r) = Count(b, r)

\* C9: without shuffling the batches are consecutive slices of X: their
\* concatenation is the prefix of X consumed so far, every batch but the last
\* has mb_size rows, no batch is empty, and at the end there are
\* ceil(len(X)/mb_size) batches concatenating to X.
C9_ConsecutiveSlices ==
    (fn = "get_minibatches" /\ ~shuffle) =>
        /\ Concat(batches) = SubSeq(X_in, 1, Min(i, Len(X_in)))
        /\ \A b \in DOMAIN batches :
            /\ b < Len(batches) => Len(batches[b]) = mb_size
            /\ 1 <= Len(batches[b]) /\ Len(batches[b]) <= mb_size
        /\ pc = "done" => /\ Len(batches) = CeilDiv(Len(X_in), mb_size)
                          /\ Concat(batches) = X_in

C9_Witness ==
    /\ fn = "get_minibatches" /\ ~shuffle /\ pc = "done"
    /\ Len(X_in) = 3 /\ mb_size = 2
    /\ Len(batches) = 2 /\ Len(batches[2]) = 1

\* C10: with shuffling the batches concatenate to a permutation of X (equal
\* as a multiset of rows), and the caller's X keeps its rows in their
\* original order.
C10_ShuffledIsPermutation ==
    (fn = "get_minibatches" /\ shuffle) =>
        /\ heap[X] = X_in
        /\ pc = "done" => SameMultiset(Concat(batches), X_in)

C10_Witness ==
    /\ fn = "get_minibatches" /\ shuffle /\ pc = "done"
    /\ Len(X_in) = 3 /\ Count(X_in, X_in[1]) = 2
    /\ Len(batches) = 2
    /\ Concat(batches) # X_in

\* ------------------------------------------------------------------ C16 - C18
InEvalLoop == fn = "eval_embeddings" /\ pc \in {"loop", "done"}

\* C16: each score matrix has 1 + |candidate pool| columns (n_sample+1 when
\* sampling, n_e+1 when exhaustive), column 0 holds the score of the
\* unmodified triplet, and every column is assigned exactly once: after i
\* candidates the columns 0..i have one write each and the others none, so
\* when the ranks are computed no column is left at its initial zero.
C16_ColumnsWrittenOnce ==
    InEvalLoop =>
        LET N == IF n_sample = None THEN n_e + 1 ELSE Val(n_sample) + 1
        IN  /\ N = 1 + Len(ents)
            /\ \A j \in DOMAIN X_test :
                /\ Len(scores_h[j]) = N /\ Len(scores_t[j]) = N
                /\ scores_h[j][1] = Score(model, X_test[j])
                /\ scores_t[j][1] = Score(model, X_test[j])
            /\ Len(writes) = N
            /\ \A c \in 1..N : writes[c] = IF c <= i + 1 THEN 1 ELSE 0
            /\ Done => \A c \in 1..N : writes[c] = 1

C16_Witness ==
    /\ fn = "eval_embeddings" /\ Done
    /\ n_sample = Some(2) /\ Len(X_test) = 2
    /\ writes = <<1, 1, 1>>

\* C17: with finite n_sample <= n_e the candidates are n_sample pairwise
\* distinct entities of [0, n_e), fixed before the loop and never changed
\* afterwards, and column c of every row holds, in both matrices, the score
\* of that row with the same candidate ents[c-1] substituted.
C17_PoolInvariant ==
    (InEvalLoop /\ n_sample # None) =>
        /\ Len(ents) = Val(n_sample)
        /\ \A a \in DOMAIN ents : ents[a] \in 0..(n_e - 1)
        /\ \A a, b \in DOMAIN ents : a # b => ents[a] # ents[b]
        /\ \A j \in DOMAIN X_test : \A c \in 2..(i + 1) :
            /\ scores_h[j][c] = Score(model, CandH(j, c))
            /\ scores_t[j][c] = Score(model, CandT(j, c))

C17_OnePoolPerCall ==
    /\ []C17_PoolInvariant
    /\ [][(fn = "eval_embeddings" /\ pc = "loop") => ents' = ents]_vars

C17_Witness ==
    /\ fn = "eval_embeddings" /\ Done
    /\ n_sample = Some(2) /\ n_e = 2 /\ Len(X_test) = 2
    /\ ents = <<1, 0>>
    /\ X_test[1] # X_test[2]

\* C18: with literals, for the latest candidate e the subject-direction call
\* gets the literal row of e as subject literals and the literal rows of the
\* original objects, the object-direction call gets the literal rows of the
\* original subjects and the literal row of e; the original-side literal
\* rows equal X_lit[X_test[:,0]] and X_lit[X_test[:,2]] throughout the loop.
C18_LiteralSides ==
    (InEvalLoop /\ X_lit # None) =>
        LET ori_s == [j \in DOMAIN X_test |-> X_lit[X_test[j][1] + 1]]
            ori_o == [j \in DOMAIN X_test |-> X_lit[X_test[j][3] + 1]]
        IN  /\ X_lit_s_ori = ori_s
            /\ X_lit_o_ori = ori_o
            /\ i >= 1 =>
                LET of_e == [j \in DOMAIN X_test |-> X_lit[ents[i] + 1]]
                IN  /\ call_h.lit_s = of_e
                    /\ call_h.lit_o = ori_o
                    /\ call_t.lit_s = ori_s
                    /\ call_t.lit_o = of_e
                    /\ \A j \in DOMAIN X_test :
                        /\ call_h.X[j] = [X_test[j] EXCEPT ![1] = ents[i]]
                        /\ call_t.X[j] = [X_test[j] EXCEPT ![3] = ents[i]]

C18_Witness ==
    /\ fn = "eval_embeddings" /\ Done /\ X_lit # None
    /\ n_e = 2 /\ Len(X_test) = 2 /\ i = 2
    /\ X_lit[1] # X_lit[2]
    /\ X_test[1][1] # X_test[1][3]
    /\ X_test[1][1] # X_test[2][1]

\* ------------------------------------------------------------------ C20
\* C20: for n_r >= 2, sample_negatives_rel returns one row (h, rc, t) per
\* input row (h, r, t), in input order, with rc in [0, n_r), rc != r and
\* subject and object unchanged.
C20_RelationCorrupted ==
    (fn = "sample_negatives_rel" /\ n_r >= 2) =>
        /\ pc \in {"for", "while_rc"} =>
            /\ Len(heap[X_corr]) = row
            /\ \A j \in 1..row :
                /\ heap[X_corr][j][1] = X_in[j][1]
                /\ heap[X_corr][j][3] = X_in[j][3]
                /\ heap[X_corr][j][2] \in 0..(n_r - 1)
                /\ heap[X_corr][j][2] # X_in[j][2]
        /\ pc = "done" =>
            /\ Len(heap[result]) = Len(X_in)
            /\ \A j \in DOMAIN X_in :
                /\ heap[result][j][1] = X_in[j][1]
                /\ heap[result][j][3] = X_in[j][3]
                /\ heap[result][j][2] \in 0..(n_r - 1)
                /\ heap[result][j][2] # X_in[j][2]

C20_Witness ==
    /\ fn = "sample_negatives_rel" /\ pc = "done"
    /\ n_r = 2 /\ Len(X_in) = 2
    /\ X_in[1][2] # X_in[2][2]
    /\ Len(heap[result]) = 2

\* ------------------------------------------------------------------ C19
\* The scores of row j with each of the candidate relations 0..4 substituted
RelCandScores(j) ==
    [c \in 1..NumCandRel |-> Score(model, [X_test[j] EXCEPT ![2] = c - 1])]

\* C19 as stated: for every n_r the call ranks, and the rank used for a row
\* is the rank of its true relation's score among the scores of exactly the
\* five candidate relations 0..4.
C19_RankAmongFiveCandidates ==
    fn = "eval_embeddings_rel" =>
        /\ pc # "IndexError"
        /\ pc = "done" =>
            \A j \in DOMAIN X_test :
                /\ X_test[j][2] < NumCandRel
                /\ ranks_r[j] = RankData(RelCandScores(j), X_test[j][2])

\* What the code does for n_r = 5 (the case in which C19 holds)
C19_HoldsForFiveRelations ==
    (fn = "eval_embeddings_rel" /\ n_r = NumCandRel) =>
        /\ pc # "IndexError"
        /\ pc = "done" =>
            \A j \in DOMAIN X_test :
                ranks_r[j] = RankData(RelCandScores(j), X_test[j][2])

\* ------------------------------------------------------------------ C11 - C15
Training == fn = "train" /\ ~args.test

\* C11: the batch of an iteration with m positives has 2*m rows for the log
\* loss and (1 + C)*m rows for the rank loss; before the shuffle its first m
\* rows are the positives of the minibatch and all later rows are negatives.
C11_BatchRows ==
    (Training /\ pc \in {"shuffle", "step"}) =>
        /\ m_mb = Len(X_mb) /\ m_mb >= 1
        /\ args.loss = "logloss" => Len(X_train_mb) = 2 * m_mb
        /\ args.loss = "rankloss" => Len(X_train_mb) = (1 + args.negative_samples) * m_mb
        /\ pc = "shuffle" =>
            /\ SubSeq(X_train_mb, 1, m_mb) = X_mb
            /\ \A j \in DOMAIN X_train_mb : X_train_mb[j].pos <=> j <= m_mb

C11_Witness ==
    /\ Training /\ pc = "step"
    /\ script = "run_baselines" /\ args.loss = "rankloss"
    /\ args.negative_samples = 2 /\ m_mb = 2
    /\ Len(X_train_mb) = 6

\* Number of optimizer steps taken in epoch e
StepsIn(e) == Cardinality({j \in DOMAIN steps : steps[j][1] = e})

\* C12 as stated, for src/run_baselines.py: nothing stops a run early, and a
\* finished run has taken exactly ceil(M/b) optimizer steps in each epoch,
\* n_epoch * ceil(M/b) in total.
C12_StepsPerEpoch ==
    (Training /\ script = "run_baselines") =>
        /\ pc \notin {"ValueError", "NameError"}
        /\ pc = "done" =>
            /\ Len(steps) = args.nepoch * CeilDiv(M_train, args.mbsize)
            /\ \A e \in 0..(args.nepoch - 1) : StepsIn(e) = CeilDiv(M_train, args.mbsize)

\* C13 as stated: in every script the logging step runs at exactly the
\* iterations whose index is a multiple of print_every, and at none when
\* print_every is -1.
C13_LogCadence ==
    Training =>
        /\ \A j \in DOMAIN logged :
            /\ args.log_interval # 0 - 1
            /\ logged[j][2] % args.log_interval = 0
        /\ (pc = "it_inc" /\ args.log_interval # 0 - 1 /\ it % args.log_interval = 0)
              => <<epoch, it>> \in Range(logged)

\* C14 as stated: in test mode with a filter file absent both filters become
\* None, nothing aborts the run, and it reaches the metric report and exit.
C14_MissingFiltersFallBack ==
    (fn = "train" /\ args.test /\ ~(FilterFiles \subseteq files)) =>
        /\ pc # "FileNotFoundError"
        /\ pc \in {"test_eval", "exit"} =>
              filter_s_test = None /\ filter_o_test = None
        /\ pc = "exit" => report

\* C15 as stated: a run started with --resume loads from the path to which a
\* run with the same dataset, model and checkpoint_dir writes its checkpoint.
C15_ResumeLoadsCheckpoint ==
    (fn = "train" /\ pc # "start" /\ args.resume) =>
        load_path = Some(checkpoint_path)

\* ------------------------------------------------------------------ claims on sample_negatives_decoupled
\* C21: sample_negatives_decoupled overwrites in each row exactly one of the
\* subject slot and the object slot: either the subject is a value of
\* [0, n_s) and relation and object are the input row's, or the object is a
\* value of [0, n_o) and subject and relation are the input row's.
C21_DecoupledOneSlot ==
    (fn = "sample_negatives_decoupled" /\ pc = "done") =>
        LET out == heap[result]
        IN  /\ Len(out) = Len(X_in)
            /\ \A j \in DOMAIN X_in :
                \/ /\ out[j][1] \in Entities(n_s)
                   /\ out[j][2] = X_in[j][2]
                   /\ out[j][3] = X_in[j][3]
                \/ /\ out[j][3] \in Entities(n_o)
                   /\ out[j][2] = X_in[j][2]
                   /\ out[j][1] = X_in[j][1]

C21_Witness ==
    /\ fn = "sample_negatives_decoupled" /\ pc = "done"
    /\ Len(X_in) = 2
    /\ DiffSlots(heap[result][1], X_in[1]) = {1}
    /\ DiffSlots(heap[result][2], X_in[2]) = {3}

\* ------------------------------------------------------------------ claims on the training loop: schedule and order
\* The optimizer steps recorded in ops
StepOps == SelectSeq(ops, LAMBDA o : o.op = "step")

\* How many of the epochs 1..e are multiples of d
Halvings(e, d) == Cardinality({x \in 1..e : x % d = 0})

\* C22: every optimizer step of epoch e runs with the learning rate
\* args.lr halved Halvings(e, lr_decay_every) = floor(e / lr_decay_every)
\* times; all steps of one epoch run with the same rate, and from one step to
\* a later one the rate never grows: it is halved once for each multiple of
\* lr_decay_every passed in between.
C22_StepDecay ==
    Training =>
        /\ \A j \in DOMAIN StepOps :
            /\ StepOps[j].lr.num = 1
            /\ StepOps[j].lr.den = Pow2(Halvings(StepOps[j].epoch, args.lr_decay_every))
            /\ Halvings(StepOps[j].epoch, args.lr_decay_every)
                   = StepOps[j].epoch \div args.lr_decay_every
        /\ \A j, q \in DOMAIN StepOps :
            j < q =>
                /\ StepOps[j].epoch <= StepOps[q].epoch
                /\ StepOps[j].epoch = StepOps[q].epoch => StepOps[j].lr = StepOps[q].lr
                /\ StepOps[q].lr.den = StepOps[j].lr.den *
                       Pow2(Cardinality({x \in (StepOps[j].epoch + 1)..StepOps[q].epoch :
                                            x % args.lr_decay_every = 0}))

C22_Witness ==
    /\ Training /\ script = "run_baselines" /\ pc = "done"
    /\ args.lr_decay_every = 2 /\ args.nepoch = 4 /\ M_train = 2
    /\ \E j, q \in DOMAIN StepOps :
        /\ StepOps[j].epoch = 1 /\ StepOps[j].lr = [num |-> 1, den |-> 1]
        /\ StepOps[q].epoch = 2 /\ StepOps[q].lr = [num |-> 1, den |-> 2]

\* The operations of iteration n of epoch e, in the order they ran.  The two
\* losses count as "loss".
IterOps(e, n) ==
    LET sel == SelectSeq(ops, LAMBDA o : o.epoch = e /\ o.it = n /\ o.op # "save")
    IN  [j \in DOMAIN sel |->
            IF sel[j].op \in {"ranking_loss", "log_loss"} THEN "loss" ELSE sel[j].op]

\* What a whole iteration n is to perform, in order
ExpectedOps(n) ==
    <<"forward", "loss", "backward", "step", "zero_grad">>
        \o (IF args.normalize_embed THEN <<"normalize_embeddings">> ELSE <<>>)
        \o (IF LogDue(script, args, n) THEN <<"log">> ELSE <<>>)

IsPrefix(a, b) == Len(a) <= Len(b) /\ a = SubSeq(b, 1, Len(a))

\* Iteration n of epoch e has reached it += 1
IterFinished(e, n) == e < epoch \/ n < it \/ pc = "it_inc"

\* C24: the operations of every iteration run in the order forward, loss,
\* backward, optimizer step, gradient reset, then one renormalisation exactly
\* when normalize_embed is set, then the logging step when it is due; an
\* iteration that reached it += 1 has run all of them, so a renormalisation
\* never precedes the optimizer step of its iteration and never runs when
\* disabled, and the logging step follows the others.
C24_IterationOrder ==
    Training =>
        \A e \in 0..epoch, n \in 0..M_train :
            LET done == IterOps(e, n)
                all == ExpectedOps(n)
            IN  /\ IsPrefix(done, all)
                /\ (done # <<>> /\ IterFinished(e, n)) => done = all

C24_Witness ==
    /\ Training /\ script = "run_baselines" /\ pc = "it_inc"
    /\ epoch = 1 /\ it = 1
    /\ IterOps(0, 0) = <<"forward", "loss", "backward", "step", "zero_grad",
                         "normalize_embeddings", "log">>
    /\ IterOps(1, 1) = <<"forward", "loss", "backward", "step", "zero_grad",
                         "normalize_embeddings">>

\* ------------------------------------------------------------------ claims on the checkpoint and the loss
\* The run is over: the loop is exhausted or an exception ended the script
RunEnded == pc \in {"done", "ValueError", "NameError"}

\* Positions in ops of the checkpoint writes
SaveAt == {j \in DOMAIN ops : ops[j].op = "save"}

\* C23 as stated, for src/run_baselines.py: a run that is over has written
\* the checkpoint n_epoch times, once for every epoch, always to the same
\* path, each write after every optimizer step and renormalisation of its
\* epoch and before every step of a later epoch; no write happens inside an
\* iteration.
C23_CheckpointEveryEpoch ==
    (Training /\ script = "run_baselines") =>
        /\ RunEnded =>
            /\ Len(saved) = args.nepoch
            /\ \A e \in 0..(args.nepoch - 1) :
                  Cardinality({j \in DOMAIN saved : saved[j][1] = e}) = 1
        /\ \A j \in DOMAIN saved : saved[j][2] = checkpoint_path
        /\ \A j \in SaveAt : \A q \in DOMAIN ops :
              ops[q].op \in {"step", "normalize_embeddings"} =>
                  (q < j <=> ops[q].epoch <= ops[j].epoch)
        /\ pc \in {"shuffle", "step", "normalize", "log", "it_inc"} =>
              (ops = <<>> \/ ops[Len(ops)].op # "save")

\* The checkpoint writes that do happen are placed as C23 says (this part of
\* the claim holds in every run).
C23_WritesBetweenEpochs ==
    (Training /\ script = "run_baselines") =>
        /\ Len(saved) = epoch
        /\ \A j \in DOMAIN saved : saved[j] = <<j - 1, checkpoint_path>>
        /\ \A j \in SaveAt : \A q \in DOMAIN ops :
              ops[q].op \in {"step", "normalize_embeddings"} =>
                  (q < j <=> ops[q].epoch <= ops[j].epoch)

\* The loss operations recorded in ops
LossOps == SelectSeq(ops, LAMBDA o : o.op \in {"ranking_loss", "log_loss"})

\* C25 as stated, for src/run_baselines.py and every --loss value: no
\* iteration ends without a loss, every iteration past its loss computation
\* has computed exactly one, all iterations of the run the same kind, and the
\* batch holds C blocks of negatives for the ranking loss and one for the log
\* loss.
C25_ExactlyOneLoss ==
    (Training /\ script = "run_baselines") =>
        /\ pc # "NameError"
        /\ \A e \in 0..epoch, n \in 0..M_train :
              LET sel == SelectSeq(LossOps, LAMBDA o : o.epoch = e /\ o.it = n)
              IN  (\E j \in DOMAIN ops : ops[j].epoch = e /\ ops[j].it = n
                                          /\ ops[j].op = "backward")
                      => Len(sel) = 1
        /\ \A j, q \in DOMAIN LossOps : LossOps[j].op = LossOps[q].op
        /\ pc \in {"normalize", "log", "it_inc"} =>
              Len(X_train_mb) = m_mb + m_mb *
                  (IF LossOps[Len(LossOps)].op = "ranking_loss"
                   THEN args.negative_samples ELSE 1)

\* With one of the two documented values the claim holds.
C25_HoldsForDocumentedValues ==
    (Training /\ script = "run_baselines" /\ args.loss \in {"logloss", "rankloss"})
        => C25_ExactlyOneLoss

\* ------------------------------------------------------------------ claims on the pairing of scores
\* The iteration is past its loss computation
AfterLoss == pc \in {"normalize", "log", "it_inc"}

\* C27: with the rank loss, for every block j in [0, C) and every i in
\* [0, m), hinge term j*m + i of ranking_loss takes as negative score the score
\* of row m + j*m + i of the batch, a corruption of positive row i, and as
\* positive score the score of positive row i; there are C*m terms.
C27_HingePairsOwnCorruption ==
    (Training /\ args.loss = "rankloss" /\ AfterLoss) =>
        /\ Len(pairs) = args.negative_samples * m_mb
        /\ \A j \in 0..(args.negative_samples - 1), ii \in 0..(m_mb - 1) :
            LET term == pairs[j * m_mb + ii + 1]
            IN  /\ term.y_neg.score_of = X_train_mb[m_mb + j * m_mb + ii + 1]
                /\ ~term.y_neg.score_of.pos
                /\ term.y_neg.score_of.src = X_mb[ii + 1].src
                /\ term.y_pos.score_of = X_mb[ii + 1]
                /\ term.y_pos.score_of.pos

C27_Witness ==
    /\ Training /\ script = "run_baselines" /\ args.loss = "rankloss" /\ pc = "normalize"
    /\ args.negative_samples = 2 /\ m_mb = 2
    /\ Len(pairs) = 4
    /\ pairs[4].y_pos.score_of = X_mb[2]
    /\ pairs[4].y_neg.score_of = [pos |-> FALSE, src |-> X_mb[2].src]

\* C28 as stated, for the log loss of src/run_baselines.py: after the joint
\* shuffle every row of the batch carries its own label, and at a logging
\* iteration pos_acc is computed on exactly the m positive rows and neg_acc on
\* exactly the negative rows.
C28_PerClassAccuracyRows ==
    (Training /\ script = "run_baselines" /\ args.loss = "logloss") =>
        /\ pc \in {"step", "normalize", "log", "it_inc"} =>
              \A j \in DOMAIN X_train_mb :
                  y_true_mb[j] = (IF X_train_mb[j].pos THEN 1 ELSE 0)
        /\ acc_rows # NoValue =>
              /\ Len(acc_rows.pos) = m_mb
              /\ \A j \in DOMAIN acc_rows.pos : acc_rows.pos[j].pos
              /\ \A j \in DOMAIN acc_rows.neg : ~acc_rows.neg[j].pos

\* The first half of C28 holds: the shuffle keeps every label with its row.
C28_LabelsFollowRows ==
    (Training /\ script = "run_baselines" /\ args.loss = "logloss"
       /\ pc \in {"step", "normalize", "log", "it_inc"}) =>
        /\ Len(X_train_mb) = 2 * m_mb /\ Len(y_true_mb) = 2 * m_mb
        /\ \A j \in DOMAIN X_train_mb :
              y_true_mb[j] = (IF X_train_mb[j].pos THEN 1 ELSE 0)

\* ------------------------------------------------------------------ claims on the redraw loops
\* The values of randint(n) that end "while drawn == original"
ExitDraws(n, original) == RandInt(n) \ {original}

\* C26 as stated, in the form a finite run refutes: for every n >= 1 and every
\* in-range batch, whenever sample_negatives2 (n_e = n) or
\* sample_negatives_rel (n_r = n) is inside a redraw loop some draw of
\* randint(n) leaves it, so that fair draws make the call return.
C26_SomeDrawExits ==
    /\ (fn = "sample_negatives2" /\ pc = "while_hc") => ExitDraws(n_e, CurRow[1]) # {}
    /\ (fn = "sample_negatives2" /\ pc = "while_tc") => ExitDraws(n_e, CurRow[3]) # {}
    /\ (fn = "sample_negatives_rel" /\ pc = "while_rc") => ExitDraws(n_r, CurRow[2]) # {}

\* C26 as stated, as a liveness property of the fair specification: the call
\* returns.
C26_CallReturns ==
    (fn \in {"sample_negatives2", "sample_negatives_rel"}) => <>(pc = "done")

\* With at least two values to draw from, fair draws make the call return.
C26_ReturnsWithTwoValues ==
    (\/ fn = "sample_negatives2" /\ n_e >= 2
     \/ fn = "sample_negatives_rel" /\ n_r >= 2) => <>(pc = "done")

\* ------------------------------------------------------------------ claims on exhaustive evaluation
\* The candidate columns (1-based) whose triplet is the unmodified row j
OwnColsH(j) == {c \in CandCols : CandH(j, c) = X_test[j]}
OwnColsT(j) == {c \in CandCols : CandT(j, c) = X_test[j]}

\* C29: in exhaustive mode (n_sample = None) the candidates are the entities
\* 0..n_e-1 in order; for every test row, in each direction, exactly one
\* candidate column reproduces the unmodified triplet, the one of the row's
\* own subject (object), every other candidate column scores a triplet that
\* differs from the true one in the corrupted slot and only there, and once
\* the own column is written it holds the score of slot zero, so the true
\* triplet's score occurs in at least two columns.
C29_OwnColumnRepeatsTrueScore ==
    (InEvalLoop /\ n_sample = None) =>
        /\ ents = [c \in 1..n_e |-> c - 1]
        /\ \A j \in DOMAIN X_test :
            /\ OwnColsH(j) = {X_test[j][1] + 2}
            /\ OwnColsT(j) = {X_test[j][3] + 2}
            /\ \A c \in CandCols \ OwnColsH(j) : DiffSlots(CandH(j, c), X_test[j]) = {1}
            /\ \A c \in CandCols \ OwnColsT(j) : DiffSlots(CandT(j, c), X_test[j]) = {3}
            /\ \A c \in 2..(i + 1) :
                /\ scores_h[j][c] = Score(model, CandH(j, c))
                /\ scores_t[j][c] = Score(model, CandT(j, c))
                /\ c \in OwnColsH(j) => scores_h[j][c] = scores_h[j][1]
                /\ c \in OwnColsT(j) => scores_t[j][c] = scores_t[j][1]
            /\ (i >= 1 /\ pc = "loop") =>
                /\ call_h.X[j] = CandH(j, i + 1)
                /\ call_t.X[j] = CandT(j, i + 1)
            /\ Done =>
                /\ Cardinality({c \in 1..(n_e + 1) : scores_h[j][c] = scores_h[j][1]}) >= 2
                /\ Cardinality({c \in 1..(n_e + 1) : scores_t[j][c] = scores_t[j][1]}) >= 2

C29_Witness ==
    /\ fn = "eval_embeddings" /\ Done /\ n_sample = None
    /\ n_e = 4 /\ X_test = <<<<2, 0, 1>>>>
    /\ model.kind = "dist"
    /\ {c \in 1..5 : scores_h[1][c] = scores_h[1][1]} = {1, 4}
    /\ {c \in 1..5 : scores_t[1][c] = scores_t[1][1]} = {1, 3}

\* ------------------------------------------------------------------ claims on the columns of eval_embeddings_rel
\* Row j scored with relation c - 1 (column c, 1-based), as the model scores it
RelColumnScore(j, c) == Score(model, [X_test[j] EXCEPT ![2] = c - 1])

\* C30 as stated: for every n_r >= 1 no column outside [0, n_r) is accessed,
\* and when the ranks are computed every column i in [0, n_r) has been
\* written by the candidate loop and holds the score of the row with
\* relation i substituted.
C30_EveryColumnHoldsItsRelation ==
    fn = "eval_embeddings_rel" =>
        /\ pc # "IndexError"
        /\ pc = "done" =>
            \A c \in 1..n_r :
                /\ writes[c] >= 1
                /\ c > 1 => writes[c] = 1
                /\ \A j \in DOMAIN X_test : scores_r[j][c] = RelColumnScore(j, c)

\* What the code does for n_r = 5 (the case in which C30 holds): column 0 is
\* written twice, first with the true triplets' scores and then by candidate 0.
C30_HoldsForFiveRelations ==
    (fn = "eval_embeddings_rel" /\ n_r = NumCandRel) =>
        /\ pc # "IndexError"
        /\ pc = "done" =>
            /\ writes = [c \in 1..n_r |-> IF c = 1 THEN 2 ELSE 1]
            /\ \A c \in 1..n_r : \A j \in DOMAIN X_test :
                  scores_r[j][c] = RelColumnScore(j, c)

\* With more than five relations the columns 5..n_r-1 are never written and
\* still hold their initial zero when the ranks are computed.
C30_ColumnsPastFiveStayZero ==
    (fn = "eval_embeddings_rel" /\ pc = "done") =>
        \A c \in (NumCandRel + 1)..n_r :
            /\ writes[c] = 0
            /\ \A j \in DOMAIN X_test : scores_r[j][c] = 0

====
